---------------------------- MODULE Spec2Model ----------------------------
(***************************************************************************)
(* Model of the document-processing pipeline of agent-adk-chainlit         *)
(* (src/src/document/document_processor.py): file validation, format       *)
(* dispatch, per-format extraction, summarization with degradation, and    *)
(* the batch entry points; and of the chat session of src/main.py: the     *)
(* on_message handlers of one session, the naming of the thread and the    *)
(* agent sessions of src/src/llm/agents/utils/session_and_runner.py.       *)
(*                                                                         *)
(* Strings are sequences of tokens.  A filename is a sequence over         *)
(* NameAlphabet, where "." and "/" are the one-character tokens the code   *)
(* looks at and every other token stands for a run of letters.  A text is  *)
(* a sequence of code points, a byte string a sequence of byte values.     *)
(***************************************************************************)
EXTENDS Integers, Sequences, FiniteSets, TLC

VARIABLES
    config,      \* self.config, the ProcessingConfig of the processor
    pc,          \* position of the running call
    filename,    \* argument filename (Optional: [none, v])
    file_bytes,  \* argument file_bytes (Optional: [none, v])
    file_mime,   \* argument file_mime
    file_info,   \* file_info of process_document_async / _validate_file
    text,        \* the text handed to _clean_and_summarize_text
    calls,       \* log of the invocations made, each with how it ended
    outcome,     \* how the running call ended: [kind, tag, body]
    file_data,   \* argument of batch_process_documents_async, in dict order
    tasks,       \* local list tasks of batch_process_documents_async
    results,     \* local dict results of batch_process_documents_async
    user_session,  \* cl.user_session of the chat session, a dict
    handlers,      \* the on_message calls of the session, in order of arrival
    services,      \* the InMemorySessionService instances created so far
    thread         \* the calls of emitter.init_thread, by message

\* the state of the chat session
chatVars == <<user_session, handlers, services, thread>>

vars == <<config, pc, filename, file_bytes, file_mime, file_info, text,
          calls, outcome, file_data, tasks, results, user_session, handlers,
          services, thread>>

\* no chat session is open
NoChat ==
    /\ user_session = <<>>
    /\ handlers = <<>>
    /\ services = <<>>
    /\ thread = <<>>

--------------------------------------------------------------------------
(* Bounds *)

\* longest filename (in tokens) given to _validate_file
MaxNameLen == 4
\* longest filename (in tokens) given to process_document_async
MaxPipeNameLen == 3
\* longest byte string of a file given to _validate_file
MaxBytesLen == 3
\* longest byte string of a file given to process_document_async
MaxPipeBytesLen == 2
\* longest text given to summarize_text or produced by a parser / the OCR call
MaxTextLen == 4
\* longest summary the service answers with
MaxSummaryLen == 1
\* most files in one batch
MaxBatch == 3
\* longest byte string given to _extract_text_from_txt_bytes on its own
MaxTxtBytesLen == 3
\* messages of one chat session
MaxMessages == 2

--------------------------------------------------------------------------
(* Value spaces *)

RECURSIVE SeqsUpTo(_, _)
SeqsUpTo(S, n) ==
    IF n = 0 THEN {<<>>}
    ELSE LET shorter == SeqsUpTo(S, n - 1)
         IN  shorter \cup {Append(s, x) : s \in {t \in shorter : Len(t) = n - 1}, x \in S}

\* tokens of the filenames given to _validate_file
ValidateAlphabet == {".", "/", "pdf", "PDF"}
\* tokens of the filenames given to process_document_async (".jpg" and ".jpeg"
\* share the extractor of ".png")
NameAlphabet == {".", "pdf", "docx", "txt", "png", "exe"}

\* byte values: space, "A", and a byte that is no UTF-8 on its own
ByteAlphabet == {32, 65, 169}
\* byte values given to _extract_text_from_txt_bytes on its own: space, "A", a
\* UTF-8 lead byte, a continuation byte cp1252 defines and one it does not
TxtByteAlphabet == {32, 65, 195, 169, 129}
\* code points of the texts a parser, the OCR call or a user supplies
CharAlphabet == {32, 65}

Mimes == {"application/pdf", "text/plain", "image/png"}

Some(v) == [none |-> FALSE, v |-> v]
None == [none |-> TRUE, v |-> <<>>]
\* Python truthiness of an Optional[str] / Optional[bytes]
Falsy(x) == x.none \/ x.v = <<>>

NoInfo == [filename |-> <<>>, extension |-> <<>>, size |-> 0, mime_type |-> ""]
NoOutcome == [kind |-> "none", tag |-> "", body |-> <<>>]
Raise(msg) == [kind |-> "raise", tag |-> msg, body |-> <<>>]
Return(tag, body) == [kind |-> "return", tag |-> tag, body |-> body]

--------------------------------------------------------------------------
(* ProcessingConfig *)

ExtPdf == <<".", "pdf">>
ExtDocx == <<".", "docx">>
ExtTxt == <<".", "txt">>
ExtPng == <<".", "png">>
ExtExe == <<".", "exe">>

\* every extension with its MIME set
ConfigFull ==
    [allowed_extensions |-> {ExtPdf, ExtDocx, ExtTxt, ExtPng},
     allowed_mime_types |-> (ExtPdf :> {"application/pdf"}) @@ (ExtDocx :> {"application/docx"})
                            @@ (ExtTxt :> {"text/plain"}) @@ (ExtPng :> {"image/png"}),
     max_file_size |-> 2,
     text_extract_limit |-> 2]

\* .pdf and .png allowed with no MIME set configured, .exe allowed with one
ConfigNoMime ==
    [allowed_extensions |-> {ExtPdf, ExtTxt, ExtPng, ExtExe},
     allowed_mime_types |-> (ExtTxt :> {"text/plain"}) @@ (ExtExe :> {"application/pdf"}),
     max_file_size |-> 3,
     text_extract_limit |-> 3]

\* .pdf allowed with an empty MIME set configured, .docx with none
ConfigEmptyMime ==
    [allowed_extensions |-> {ExtPdf, ExtTxt, ExtDocx},
     allowed_mime_types |-> (ExtPdf :> {}) @@ (ExtTxt :> {"text/plain", "application/pdf"}),
     max_file_size |-> 1,
     text_extract_limit |-> 1]

Configs == {ConfigFull, ConfigNoMime, ConfigEmptyMime}

--------------------------------------------------------------------------
(* String helpers: str.lower, pathlib's suffix, slicing, str.strip *)

LowerToken(t) == IF t = "PDF" THEN "pdf" ELSE t
Lower(s) == [i \in 1..Len(s) |-> LowerToken(s[i])]

\* index of the first "/" of s, Len(s) + 1 when there is none
FirstSlash(s) ==
    IF \E i \in 1..Len(s) : s[i] = "/"
    THEN CHOOSE i \in 1..Len(s) : s[i] = "/" /\ \A j \in 1..(i - 1) : s[j] # "/"
    ELSE Len(s) + 1

\* the parts of a path: the runs between "/", without the empty ones and the "." ones
RECURSIVE PathParts(_)
PathParts(s) ==
    IF s = <<>> THEN <<>>
    ELSE LET k == FirstSlash(s)
             head == SubSeq(s, 1, k - 1)
             rest == SubSeq(s, k + 1, Len(s))
         IN  (IF head = <<>> \/ head = <<".">> THEN <<>> ELSE <<head>>) \o PathParts(rest)

\* Path(filename).name: the last part, empty when the path has none
PathName(s) ==
    LET parts == PathParts(s)
    IN  IF parts = <<>> THEN <<>> ELSE parts[Len(parts)]

\* Path(filename).suffix: from the last "." of the name, when that "." is neither
\* the first nor the last character of the name
PathSuffix(s) ==
    LET name == PathName(s)
        dots == {i \in 1..Len(name) : name[i] = "."}
    IN  IF dots = {} THEN <<>>
        ELSE LET i == CHOOSE d \in dots : \A e \in dots : e <= d
             IN  IF 1 < i /\ i < Len(name) THEN SubSeq(name, i, Len(name)) ELSE <<>>

\* s[:n]
Prefix(s, n) == SubSeq(s, 1, IF Len(s) < n THEN Len(s) ELSE n)

IsSpace(c) == c = 32

\* s.strip()
Strip(s) ==
    LET keep == {i \in 1..Len(s) : ~IsSpace(s[i])}
    IN  IF keep = {} THEN <<>>
        ELSE LET lo == CHOOSE i \in keep : \A j \in keep : i <= j
                 hi == CHOOSE i \in keep : \A j \in keep : j <= i
             IN  SubSeq(s, lo, hi)

\* '..' in filename
ContainsDotDot(s) == \E i \in 1..(Len(s) - 1) : s[i] = "." /\ s[i + 1] = "."
\* filename.startswith('/')
StartsWithSlash(s) == Len(s) > 0 /\ s[1] = "/"

--------------------------------------------------------------------------
(* Validation *)

ErrExtension == "Unsupported file extension"
ErrMime == "File content doesn't match extension"
ErrSize == "File size exceeds limit"
ErrFilename == "Invalid filename: potential path traversal detected"

GetExpectedMimeTypes(cfg, extension) ==
    IF Lower(extension) \in DOMAIN cfg.allowed_mime_types
    THEN cfg.allowed_mime_types[Lower(extension)]
    ELSE {}

\* the extension taken as written, not lower-cased
GetFileInfo_NoLower(name, bytes, mime) ==
    [filename |-> name,
     extension |-> PathSuffix(name),
     size |-> Len(bytes),
     mime_type |-> mime]

GetFileInfo(name, bytes, mime) ==
    [filename |-> name,
     extension |-> Lower(PathSuffix(name)),
     size |-> Len(bytes),
     mime_type |-> mime]

\* the size check moved before the MIME check
ValidateFile_SizeFirst(cfg, name, bytes, mime) ==
    LET info == GetFileInfo(name, bytes, mime)
        expected_mimes == GetExpectedMimeTypes(cfg, info.extension)
    IN  IF info.extension \notin cfg.allowed_extensions
        THEN [ok |-> FALSE, err |-> ErrExtension, info |-> info]
        ELSE IF info.size > cfg.max_file_size
        THEN [ok |-> FALSE, err |-> ErrSize, info |-> info]
        ELSE IF expected_mimes # {} /\ info.mime_type \notin expected_mimes
        THEN [ok |-> FALSE, err |-> ErrMime, info |-> info]
        ELSE IF ContainsDotDot(name) \/ StartsWithSlash(name)
        THEN [ok |-> FALSE, err |-> ErrFilename, info |-> info]
        ELSE [ok |-> TRUE, err |-> "", info |-> info]

\* the filename check looks for '..' only
ValidateFile_NoRootCheck(cfg, name, bytes, mime) ==
    LET info == GetFileInfo(name, bytes, mime)
        expected_mimes == GetExpectedMimeTypes(cfg, info.extension)
    IN  IF info.extension \notin cfg.allowed_extensions
        THEN [ok |-> FALSE, err |-> ErrExtension, info |-> info]
        ELSE IF expected_mimes # {} /\ info.mime_type \notin expected_mimes
        THEN [ok |-> FALSE, err |-> ErrMime, info |-> info]
        ELSE IF info.size > cfg.max_file_size
        THEN [ok |-> FALSE, err |-> ErrSize, info |-> info]
        ELSE IF ContainsDotDot(name)
        THEN [ok |-> FALSE, err |-> ErrFilename, info |-> info]
        ELSE [ok |-> TRUE, err |-> "", info |-> info]

\* _validate_file: [ok, err, info]
ValidateFile(cfg, name, bytes, mime) ==
    LET info == GetFileInfo(name, bytes, mime)
        expected_mimes == GetExpectedMimeTypes(cfg, info.extension)
    IN  IF info.extension \notin cfg.allowed_extensions
        THEN [ok |-> FALSE, err |-> ErrExtension, info |-> info]
        ELSE IF expected_mimes # {} /\ info.mime_type \notin expected_mimes
        THEN [ok |-> FALSE, err |-> ErrMime, info |-> info]
        ELSE IF info.size > cfg.max_file_size
        THEN [ok |-> FALSE, err |-> ErrSize, info |-> info]
        ELSE IF ContainsDotDot(name) \/ StartsWithSlash(name)
        THEN [ok |-> FALSE, err |-> ErrFilename, info |-> info]
        ELSE [ok |-> TRUE, err |-> "", info |-> info]

\* a direct call of _validate_file
InitValidate ==
    /\ NoChat
    /\ config \in Configs
    /\ pc = "validate_file"
    /\ filename \in {Some(n) : n \in SeqsUpTo(ValidateAlphabet, MaxNameLen)}
    /\ file_bytes \in {Some([i \in 1..k |-> 65]) : k \in 0..MaxBytesLen}
    /\ file_mime \in Mimes
    /\ file_info = NoInfo
    /\ text = <<>>
    /\ calls = <<>>
    /\ outcome = NoOutcome
    /\ file_data = <<>>
    /\ tasks = <<>>
    /\ results = <<>>

CallValidateFile ==
    /\ pc = "validate_file"
    /\ LET r == ValidateFile(config, filename.v, file_bytes.v, file_mime)
       IN  /\ calls' = Append(calls, [op |-> "_validate_file", ok |-> r.ok])
           /\ file_info' = r.info
           /\ outcome' = IF r.ok THEN Return("file_info", <<>>) ELSE Raise(r.err)
    /\ pc' = "done"
    /\ UNCHANGED chatVars
    /\ UNCHANGED <<config, filename, file_bytes, file_mime, text, file_data, tasks, results>>

NextValidate == CallValidateFile

SpecValidate == InitValidate /\ [][NextValidate]_vars

--------------------------------------------------------------------------
(* The text-generation service and the parsing libraries *)

Texts == SeqsUpTo(CharAlphabet, MaxTextLen)

\* client.models.generate_content on an image: raises, or answers with a text
OcrOutcomes ==
    {[ok |-> FALSE, text |-> <<>>]} \cup {[ok |-> TRUE, text |-> t] : t \in Texts}

\* client.models.generate_content on a text: raises, or answers with a summary
SummaryOutcomes ==
    {[ok |-> FALSE, text |-> <<>>]}
    \cup {[ok |-> TRUE, text |-> t] : t \in SeqsUpTo(CharAlphabet, MaxSummaryLen)}

\* fitz.open / Document: raises, or yields the text of the pages / paragraphs
ParseOutcomes ==
    {[ok |-> FALSE, text |-> <<>>]} \cup {[ok |-> TRUE, text |-> t] : t \in Texts}

--------------------------------------------------------------------------
(* bytes.decode *)

IsContinuation(b) == 128 <= b /\ b <= 191

\* strict UTF-8 decoding of sequences of one- and two-byte forms: [ok, text]
RECURSIVE DecodeUtf8(_)
DecodeUtf8(bytes) ==
    IF bytes = <<>> THEN [ok |-> TRUE, text |-> <<>>]
    ELSE IF bytes[1] < 128
    THEN LET r == DecodeUtf8(Tail(bytes))
         IN  [ok |-> r.ok, text |-> <<bytes[1]>> \o r.text]
    ELSE IF 194 <= bytes[1] /\ bytes[1] <= 223 /\ Len(bytes) >= 2 /\ IsContinuation(bytes[2])
    THEN LET r == DecodeUtf8(Tail(Tail(bytes)))
         IN  [ok |-> r.ok, text |-> <<(bytes[1] - 192) * 64 + (bytes[2] - 128)>> \o r.text]
    ELSE [ok |-> FALSE, text |-> <<>>]

\* the bytes cp1252 leaves undefined
Cp1252Undefined == {129, 141, 143, 144, 157}

\* Latin-1 refuses the bytes above 127, as ASCII does
Decode_Latin1Strict(encoding, bytes) ==
    CASE encoding = "utf-8" -> DecodeUtf8(bytes)
      [] encoding = "windows-1252" ->
            IF \E i \in 1..Len(bytes) : bytes[i] \in Cp1252Undefined
            THEN [ok |-> FALSE, text |-> <<>>]
            ELSE [ok |-> TRUE, text |-> bytes]
      [] encoding = "latin-1" ->
            IF \E i \in 1..Len(bytes) : bytes[i] > 127
            THEN [ok |-> FALSE, text |-> <<>>]
            ELSE [ok |-> TRUE, text |-> bytes]
      [] OTHER -> [ok |-> TRUE, text |-> bytes]

\* bytes.decode(encoding): [ok, text]; the code points of cp1252's 128..159 are
\* kept as the byte values
Decode(encoding, bytes) ==
    CASE encoding = "utf-8" -> DecodeUtf8(bytes)
      [] encoding = "windows-1252" ->
            IF \E i \in 1..Len(bytes) : bytes[i] \in Cp1252Undefined
            THEN [ok |-> FALSE, text |-> <<>>]
            ELSE [ok |-> TRUE, text |-> bytes]
      [] OTHER -> [ok |-> TRUE, text |-> bytes]

\* U+FFFD
ReplacementChar == 65533

\* bytes.decode('utf-8', errors='replace') on one- and two-byte forms
RECURSIVE DecodeUtf8Replace(_)
DecodeUtf8Replace(bytes) ==
    IF bytes = <<>> THEN <<>>
    ELSE IF bytes[1] < 128 THEN <<bytes[1]>> \o DecodeUtf8Replace(Tail(bytes))
    ELSE IF 194 <= bytes[1] /\ bytes[1] <= 223 /\ Len(bytes) >= 2 /\ IsContinuation(bytes[2])
    THEN <<(bytes[1] - 192) * 64 + (bytes[2] - 128)>> \o DecodeUtf8Replace(Tail(Tail(bytes)))
    ELSE <<ReplacementChar>> \o DecodeUtf8Replace(Tail(bytes))

\* Latin-1 tried before UTF-8
Encodings_Latin1First == <<"latin-1", "utf-8", "windows-1252", "iso-8859-1">>

Encodings == <<"utf-8", "latin-1", "windows-1252", "iso-8859-1">>

\* the loop over encodings: the first encoding that decodes, with its text
RECURSIVE TryEncodings(_, _)
TryEncodings(encodings, bytes) ==
    IF encodings = <<>> THEN [found |-> FALSE, encoding |-> "", text |-> <<>>]
    ELSE LET r == Decode(Head(encodings), bytes)
         IN  IF r.ok THEN [found |-> TRUE, encoding |-> Head(encodings), text |-> r.text]
             ELSE TryEncodings(Tail(encodings), bytes)

\* the decoding attempts the loop and the fallback make, in order, each with
\* whether it decoded
RECURSIVE DecodeAttempts(_, _)
DecodeAttempts(encodings, bytes) ==
    IF encodings = <<>> THEN <<[op |-> "utf-8:replace", ok |-> TRUE]>>
    ELSE LET r == Decode(Head(encodings), bytes)
         IN  <<[op |-> Head(encodings), ok |-> r.ok]>>
             \o (IF r.ok THEN <<>> ELSE DecodeAttempts(Tail(encodings), bytes))

\* the decoding step of _extract_text_from_txt_bytes
DecodeTxt(bytes) ==
    LET tried == TryEncodings(Encodings, bytes)
    IN  IF tried.found THEN tried.text ELSE DecodeUtf8Replace(bytes)

--------------------------------------------------------------------------
(* Summarization *)

Sentinel == Return("No extractable text content found.", <<>>)
\* f"Original content:\n\n{...}"
OriginalContent(body) == Return("Original content:", body)
\* response.text
Summary(body) == Return("response.text", body)

\* only the empty text counts as blank
IsBlank_EmptyOnly(t) == t = <<>>

\* not text or not text.strip()
IsBlank(t) == t = <<>> \/ Strip(t) = <<>>

\* the fallback keeps one character more than the limit
CleanAndSummarizeText_LongFallback(cfg, t, svc) ==
    IF t = <<>> \/ Strip(t) = <<>>
    THEN [value |-> Sentinel, called |-> FALSE]
    ELSE IF svc.ok
    THEN [value |-> Summary(svc.text), called |-> TRUE]
    ELSE [value |-> OriginalContent(Prefix(t, cfg.text_extract_limit + 1)), called |-> TRUE]

\* a failure of the service is raised instead of degraded
CleanAndSummarizeText_Propagate(cfg, t, svc) ==
    IF t = <<>> \/ Strip(t) = <<>>
    THEN [value |-> Sentinel, called |-> FALSE]
    ELSE IF svc.ok
    THEN [value |-> Summary(svc.text), called |-> TRUE]
    ELSE [value |-> Raise("ServiceError"), called |-> TRUE]

\* _clean_and_summarize_text with the service answering svc: the value returned
\* and whether the service was called
CleanAndSummarizeText(cfg, t, svc) ==
    IF IsBlank(t)
    THEN [value |-> Sentinel, called |-> FALSE]
    ELSE IF svc.ok
    THEN [value |-> Summary(svc.text), called |-> TRUE]
    ELSE [value |-> OriginalContent(Prefix(t, cfg.text_extract_limit)), called |-> TRUE]

\* a failed call of the service is issued a second time before degrading
CleanAndSummarize_Retry ==
    /\ pc = "_clean_and_summarize_text"
    /\ \E svc \in SummaryOutcomes :
          LET r == CleanAndSummarizeText(config, text, svc)
              entry == [op |-> "generate_content:summary", ok |-> svc.ok]
          IN  /\ calls' = IF ~r.called THEN calls
                          ELSE IF svc.ok THEN Append(calls, entry)
                          ELSE calls \o <<entry, entry>>
              /\ outcome' = r.value
    /\ pc' = "done"
    /\ UNCHANGED chatVars
    /\ UNCHANGED <<config, filename, file_bytes, file_mime, file_info, text,
                   file_data, tasks, results>>

\* the body of _clean_and_summarize_text, reached from an extractor or summarize_text
CleanAndSummarize ==
    /\ pc = "_clean_and_summarize_text"
    /\ \E svc \in SummaryOutcomes :
          LET r == CleanAndSummarizeText(config, text, svc)
          IN  /\ calls' = IF r.called
                          THEN Append(calls, [op |-> "generate_content:summary", ok |-> svc.ok])
                          ELSE calls
              /\ outcome' = r.value
    /\ pc' = "done"
    /\ UNCHANGED chatVars
    /\ UNCHANGED <<config, filename, file_bytes, file_mime, file_info, text,
                   file_data, tasks, results>>

\* summarize_text(content): content is held in text
SummarizeText ==
    /\ pc = "summarize_text"
    /\ calls' = Append(calls, [op |-> "_clean_and_summarize_text", ok |-> TRUE])
    /\ pc' = "_clean_and_summarize_text"
    /\ UNCHANGED chatVars
    /\ UNCHANGED <<config, filename, file_bytes, file_mime, file_info, text, outcome,
                   file_data, tasks, results>>

\* a call of summarize_text(content)
InitSummarize ==
    /\ NoChat
    /\ config \in Configs
    /\ pc = "summarize_text"
    /\ filename = None
    /\ file_bytes = None
    /\ file_mime = ""
    /\ file_info = NoInfo
    /\ text \in Texts
    /\ calls = <<>>
    /\ outcome = NoOutcome
    /\ file_data = <<>>
    /\ tasks = <<>>
    /\ results = <<>>

NextSummarize == SummarizeText \/ CleanAndSummarize

SpecSummarize == InitSummarize /\ [][NextSummarize]_vars

--------------------------------------------------------------------------
(* process_document_async *)

ErrRequired == "Filename and file_bytes are required"
ErrPdf == "Failed to process PDF"
ErrDocx == "Failed to process DOCX"
ErrTxt == "Failed to process text file"
ErrImage == "Failed to process image"

\* self.file_processor_map
FileProcessorMap ==
    (ExtPdf :> "_extract_text_from_pdf_bytes")
    @@ (ExtDocx :> "_extract_text_from_docx_bytes")
    @@ (ExtTxt :> "_extract_text_from_txt_bytes")
    @@ (<<".", "jpg">> :> "_extract_content_from_image_bytes")
    @@ (<<".", "jpeg">> :> "_extract_content_from_image_bytes")
    @@ (ExtPng :> "_extract_content_from_image_bytes")

\* only the filename is checked
ProcessDocumentEntry_NameOnly ==
    /\ pc = "process_document_async"
    /\ IF Falsy(filename)
       THEN outcome' = Raise(ErrRequired) /\ pc' = "done"
       ELSE outcome' = outcome /\ pc' = "_validate_file"
    /\ UNCHANGED chatVars
    /\ UNCHANGED <<config, filename, file_bytes, file_mime, file_info, text, calls,
                   file_data, tasks, results>>

\* the check of the arguments; a failure is logged and raised again
ProcessDocumentEntry ==
    /\ pc = "process_document_async"
    /\ IF Falsy(filename) \/ Falsy(file_bytes)
       THEN outcome' = Raise(ErrRequired) /\ pc' = "done"
       ELSE outcome' = outcome /\ pc' = "_validate_file"
    /\ UNCHANGED chatVars
    /\ UNCHANGED <<config, filename, file_bytes, file_mime, file_info, text, calls,
                   file_data, tasks, results>>

\* file_info = await self._validate_file(...)
ProcessDocumentValidate ==
    /\ pc = "_validate_file"
    /\ LET r == ValidateFile(config, filename.v, file_bytes.v, file_mime)
       IN  /\ calls' = Append(calls, [op |-> "_validate_file", ok |-> r.ok])
           /\ IF r.ok
              THEN file_info' = r.info /\ outcome' = outcome /\ pc' = "dispatch"
              ELSE file_info' = file_info /\ outcome' = Raise(r.err) /\ pc' = "done"
    /\ UNCHANGED chatVars
    /\ UNCHANGED <<config, filename, file_bytes, file_mime, text, file_data, tasks, results>>

\* processor = self.file_processor_map.get(file_info['extension'])
ProcessDocumentDispatch ==
    /\ pc = "dispatch"
    /\ IF file_info.extension \in DOMAIN FileProcessorMap
       THEN outcome' = outcome /\ pc' = FileProcessorMap[file_info.extension]
       ELSE outcome' = Raise(ErrExtension) /\ pc' = "done"
    /\ UNCHANGED chatVars
    /\ UNCHANGED <<config, filename, file_bytes, file_mime, file_info, text, calls,
                   file_data, tasks, results>>

\* _extract_text_from_pdf_bytes up to its call of _clean_and_summarize_text
ExtractTextFromPdf ==
    /\ pc = "_extract_text_from_pdf_bytes"
    /\ \E parsed \in ParseOutcomes :
          /\ calls' = Append(calls, [op |-> "_extract_text_from_pdf_bytes", ok |-> parsed.ok])
          /\ IF parsed.ok
             THEN /\ text' = Prefix(parsed.text, config.text_extract_limit)
                  /\ outcome' = outcome
                  /\ pc' = "_clean_and_summarize_text"
             ELSE /\ text' = text
                  /\ outcome' = Raise(ErrPdf)
                  /\ pc' = "done"
    /\ UNCHANGED chatVars
    /\ UNCHANGED <<config, filename, file_bytes, file_mime, file_info, file_data, tasks, results>>

\* _extract_text_from_docx_bytes up to its call of _clean_and_summarize_text
ExtractTextFromDocx ==
    /\ pc = "_extract_text_from_docx_bytes"
    /\ \E parsed \in ParseOutcomes :
          /\ calls' = Append(calls, [op |-> "_extract_text_from_docx_bytes", ok |-> parsed.ok])
          /\ IF parsed.ok
             THEN /\ text' = Strip(Prefix(parsed.text, config.text_extract_limit))
                  /\ outcome' = outcome
                  /\ pc' = "_clean_and_summarize_text"
             ELSE /\ text' = text
                  /\ outcome' = Raise(ErrDocx)
                  /\ pc' = "done"
    /\ UNCHANGED chatVars
    /\ UNCHANGED <<config, filename, file_bytes, file_mime, file_info, file_data, tasks, results>>

\* _extract_text_from_txt_bytes up to its call of _clean_and_summarize_text
ExtractTextFromTxt ==
    /\ pc = "_extract_text_from_txt_bytes"
    /\ calls' = Append(calls, [op |-> "_extract_text_from_txt_bytes", ok |-> TRUE])
                 \o DecodeAttempts(Encodings, file_bytes.v)
    /\ text' = Prefix(DecodeTxt(file_bytes.v), config.text_extract_limit)
    /\ pc' = "_clean_and_summarize_text"
    /\ UNCHANGED chatVars
    /\ UNCHANGED <<config, filename, file_bytes, file_mime, file_info, outcome,
                   file_data, tasks, results>>

\* _extract_content_from_image_bytes up to its call of _clean_and_summarize_text:
\* the OCR call of the service
ExtractContentFromImage ==
    /\ pc = "_extract_content_from_image_bytes"
    /\ \E svc \in OcrOutcomes :
          /\ calls' = calls \o <<[op |-> "_extract_content_from_image_bytes", ok |-> svc.ok],
                                 [op |-> "generate_content:ocr", ok |-> svc.ok]>>
          /\ IF svc.ok
             THEN /\ text' = svc.text
                  /\ outcome' = outcome
                  /\ pc' = "_clean_and_summarize_text"
             ELSE /\ text' = text
                  /\ outcome' = Raise(ErrImage)
                  /\ pc' = "done"
    /\ UNCHANGED chatVars
    /\ UNCHANGED <<config, filename, file_bytes, file_mime, file_info, file_data, tasks, results>>

\* a call of process_document_async(filename, file_bytes, file_mime)
Init ==
    /\ NoChat
    /\ config \in Configs
    /\ pc = "process_document_async"
    /\ filename \in {None} \cup {Some(n) : n \in SeqsUpTo(NameAlphabet, MaxPipeNameLen)}
    /\ file_bytes \in {None} \cup {Some(b) : b \in SeqsUpTo(ByteAlphabet, MaxPipeBytesLen)}
    /\ file_mime \in Mimes
    /\ file_info = NoInfo
    /\ text = <<>>
    /\ calls = <<>>
    /\ outcome = NoOutcome
    /\ file_data = <<>>
    /\ tasks = <<>>
    /\ results = <<>>

Next ==
    \/ ProcessDocumentEntry
    \/ ProcessDocumentValidate
    \/ ProcessDocumentDispatch
    \/ ExtractTextFromPdf
    \/ ExtractTextFromDocx
    \/ ExtractTextFromTxt
    \/ ExtractContentFromImage
    \/ CleanAndSummarize

Spec == Init /\ [][Next]_vars

\* a call of _extract_text_from_txt_bytes(filename, txt_bytes, txt_mime)
InitTxt ==
    /\ NoChat
    /\ config \in Configs
    /\ pc = "_extract_text_from_txt_bytes"
    /\ filename = Some(<<"txt", ".", "txt">>)
    /\ file_bytes \in {Some(b) : b \in SeqsUpTo(TxtByteAlphabet, MaxTxtBytesLen)}
    /\ file_mime = "text/plain"
    /\ file_info = NoInfo
    /\ text = <<>>
    /\ calls = <<>>
    /\ outcome = NoOutcome
    /\ file_data = <<>>
    /\ tasks = <<>>
    /\ results = <<>>

NextTxt == ExtractTextFromTxt \/ CleanAndSummarize

SpecTxt == InitTxt /\ [][NextTxt]_vars

--------------------------------------------------------------------------
(* batch_process_documents_async *)

ErrType == "TypeError: process_single_file_async() takes 2 positional arguments but 3 were given"

\* the parameters of process_single_file_async after self
ProcessSingleFileParams == <<"file">>

\* self.process_single_file_async(*args): Python binds the arguments when the
\* coroutine function is called, before any of its body runs
CallProcessSingleFile(args) ==
    IF Len(args) = Len(ProcessSingleFileParams)
    THEN [kind |-> "coroutine", tag |-> "process_single_file_async", body |-> <<>>]
    ELSE Raise(ErrType)

\* f"Error processing {filename}: {str(e)}"
ErrorString(e) == [kind |-> "error", tag |-> e.tag, body |-> <<>>]

\* the names of file_data
FileNames(data) == {data[i].filename : i \in 1..Len(data)}

\* the loop over tasks: results[filename] is the task's value or its error string
RECURSIVE AwaitAll(_, _)
AwaitAll(ts, res) ==
    IF ts = <<>> THEN res
    ELSE LET t == Head(ts)
             entry == IF t.outcome.kind = "return" THEN t.outcome ELSE ErrorString(t.outcome)
         IN  AwaitAll(Tail(ts), (t.filename :> entry) @@ res)

\* results = {}; tasks = []
BatchStart ==
    /\ pc = "batch_process_documents_async"
    /\ results' = <<>>
    /\ tasks' = <<>>
    /\ pc' = "batch_create_tasks"
    /\ UNCHANGED chatVars
    /\ UNCHANGED <<config, filename, file_bytes, file_mime, file_info, text, calls,
                   outcome, file_data>>

\* one round of the first loop: the call of process_single_file_async with the
\* filename and the bytes, outside any try
BatchCreateTask ==
    /\ pc = "batch_create_tasks"
    /\ Len(tasks) < Len(file_data)
    /\ LET item == file_data[Len(tasks) + 1]
           coroutine == CallProcessSingleFile(<<item.filename, item.file_bytes>>)
       IN  /\ calls' = Append(calls, [op |-> "process_single_file_async",
                                      ok |-> coroutine.kind # "raise"])
           /\ IF coroutine.kind = "raise"
              THEN tasks' = tasks /\ outcome' = coroutine /\ pc' = "done"
              ELSE /\ tasks' = Append(tasks, [filename |-> item.filename, outcome |-> NoOutcome])
                   /\ outcome' = outcome
                   /\ pc' = pc
    /\ UNCHANGED chatVars
    /\ UNCHANGED <<config, filename, file_bytes, file_mime, file_info, text, file_data, results>>

\* the second loop and the return
BatchAwaitAll ==
    /\ pc = "batch_create_tasks"
    /\ Len(tasks) = Len(file_data)
    /\ results' = AwaitAll(tasks, results)
    /\ outcome' = Return("results", <<>>)
    /\ pc' = "done"
    /\ UNCHANGED chatVars
    /\ UNCHANGED <<config, filename, file_bytes, file_mime, file_info, text, calls,
                   file_data, tasks>>

\* the files of a batch
BatchNames == {<<"pdf", ".", "pdf">>, <<"txt", ".", "txt">>, <<"png", ".", "png">>,
               <<"pdf", ".", "exe">>}
BatchBytes == {<<>>, <<65>>}

\* dicts of at most n files, in insertion order
RECURSIVE FileDataUpTo(_)
FileDataUpTo(n) ==
    IF n = 0 THEN {<<>>}
    ELSE LET shorter == FileDataUpTo(n - 1)
         IN  shorter \cup
             {Append(d, [filename |-> f, file_bytes |-> b]) :
                 d \in {e \in shorter : Len(e) = n - 1}, f \in BatchNames, b \in BatchBytes}

\* a call of batch_process_documents_async(file_data)
InitBatch ==
    /\ NoChat
    /\ config \in Configs
    /\ pc = "batch_process_documents_async"
    /\ filename = None
    /\ file_bytes = None
    /\ file_mime = ""
    /\ file_info = NoInfo
    /\ text = <<>>
    /\ calls = <<>>
    /\ outcome = NoOutcome
    /\ file_data \in {d \in FileDataUpTo(MaxBatch) :
                         \A i, j \in 1..Len(d) : d[i].filename = d[j].filename => i = j}
    /\ tasks = <<>>
    /\ results = <<>>

NextBatch == BatchStart \/ BatchCreateTask \/ BatchAwaitAll

SpecBatch == InitBatch /\ [][NextBatch]_vars

--------------------------------------------------------------------------
(* batch_process_documents, the synchronous wrapper *)

ErrMissingArgument ==
    "TypeError: process_document_async() missing 1 required positional argument: 'file_mime'"

\* the parameters of process_document_async after self
ProcessDocumentParams == <<"filename", "file_bytes", "file_mime">>

\* self.process_document_async(*args) without await.  The method is a coroutine
\* function under the cl.step decorator: the call runs none of its body.  A
\* decorator that forwards *args hands back a coroutine object whatever the
\* arguments are; one that keeps the signature binds them at the call (eager)
\* and raises on a missing one.
CallProcessDocument(args, eager) ==
    IF eager /\ Len(args) # Len(ProcessDocumentParams)
    THEN Raise(ErrMissingArgument)
    ELSE [kind |-> "coroutine", tag |-> "process_document_async", body |-> <<>>]

\* results = {}
SyncBatchStart ==
    /\ pc = "batch_process_documents"
    /\ results' = <<>>
    /\ pc' = "sync_batch_loop"
    /\ UNCHANGED chatVars
    /\ UNCHANGED <<config, filename, file_bytes, file_mime, file_info, text, calls,
                   outcome, file_data, tasks>>

\* the loop body run to completion, the file's pipeline awaited inside it
SyncBatchCall_Awaits ==
    /\ pc = "sync_batch_loop"
    /\ Len(calls) < Len(file_data)
    /\ LET item == file_data[Len(calls) + 1]
       IN  /\ calls' = Append(calls, [op |-> "process_document_async", ok |-> TRUE])
           /\ results' = (item.filename :> Sentinel) @@ results
    /\ UNCHANGED chatVars
    /\ UNCHANGED <<config, pc, filename, file_bytes, file_mime, file_info, text,
                   outcome, file_data, tasks>>

\* one round of the loop: the value of the call is stored as it is, an exception
\* of the call as its error string
SyncBatchCall ==
    /\ pc = "sync_batch_loop"
    /\ Len(calls) < Len(file_data)
    /\ \E eager \in BOOLEAN :
          LET item == file_data[Len(calls) + 1]
              value == CallProcessDocument(<<item.filename, item.file_bytes>>, eager)
          IN  /\ calls' = Append(calls, [op |-> "process_document_async",
                                         ok |-> value.kind # "raise"])
              /\ results' = (item.filename :>
                                (IF value.kind = "raise" THEN ErrorString(value) ELSE value))
                             @@ results
    /\ UNCHANGED chatVars
    /\ UNCHANGED <<config, pc, filename, file_bytes, file_mime, file_info, text,
                   outcome, file_data, tasks>>

\* return results
SyncBatchReturn ==
    /\ pc = "sync_batch_loop"
    /\ Len(calls) = Len(file_data)
    /\ outcome' = Return("results", <<>>)
    /\ pc' = "done"
    /\ UNCHANGED chatVars
    /\ UNCHANGED <<config, filename, file_bytes, file_mime, file_info, text, calls,
                   file_data, tasks, results>>

\* a call of batch_process_documents(file_data)
InitSyncBatch ==
    /\ NoChat
    /\ config \in Configs
    /\ pc = "batch_process_documents"
    /\ filename = None
    /\ file_bytes = None
    /\ file_mime = ""
    /\ file_info = NoInfo
    /\ text = <<>>
    /\ calls = <<>>
    /\ outcome = NoOutcome
    /\ file_data \in {d \in FileDataUpTo(MaxBatch) :
                         \A i, j \in 1..Len(d) : d[i].filename = d[j].filename => i = j}
    /\ tasks = <<>>
    /\ results = <<>>

NextSyncBatch == SyncBatchStart \/ SyncBatchCall \/ SyncBatchReturn

SpecSyncBatch == InitSyncBatch /\ [][NextSyncBatch]_vars

--------------------------------------------------------------------------
(* src/main.py: the on_message handlers of one chat session *)

\* the variables of the document processor
docVars == <<config, pc, filename, file_bytes, file_mime, file_info, text,
             calls, outcome, file_data, tasks, results>>

\* session_id = str(cl.context.session.thread_id), the same for every message
ThreadId == "thread_id"

COMMANDS == {"Scrape", "Search", "Chat"}

ErrInvalidMessage == "ValueError: Received invalid or None message"
ErrNameService == "Exception: generate_content failed"
ErrInitThread == "Exception: init_thread failed or was cancelled"
ErrNoDocument == "ValueError: No valid document files found"
ErrProcessing == "ValueError: Error processing attachment file"
ErrNoContent == "ValueError: No extracted content to user file"
ErrNoAnswer == "ValueError: No content answer"
ErrNoSearch == "ValueError: No search content"
ErrAgent == "Exception: agent run failed"

\* what a message carries: its truth value, its elements (none, one with a
\* document suffix, or only others) and its command; the command is varied
\* where the code looks at it
Elements == {"none", "document", "other"}
Commands == {"None", "Search", "Summary"}
Messages ==
    {[given |-> FALSE, elements |-> "none", command |-> "None"]}
    \cup {[given |-> TRUE, elements |-> "none", command |-> c] : c \in Commands}
    \cup {[given |-> TRUE, elements |-> "document", command |-> c] : c \in {"None", "Summary"}}
    \cup {[given |-> TRUE, elements |-> "other", command |-> "None"]}

\* cl.user_session.get(key, default)
SessionGet(key, default) ==
    IF key \in DOMAIN user_session THEN user_session[key] ELSE default

\* cl.user_session.set(key, value)
SessionSet(key, value) ==
    [k \in DOMAIN user_session \cup {key} |-> IF k = key THEN value ELSE user_session[k]]

\* the user session on_chat_start leaves
OnChatStart ==
    [k \in {"chat_history", "mcp_tools", "audio_buffer"} |->
        CASE k = "chat_history" -> "[]"
          [] k = "mcp_tools" -> "{}"
          [] k = "audio_buffer" -> "None"]

\* a call of on_message(user_message) that has not run yet
Handler(m) ==
    [message |-> m, pc |-> "on_message", outcome |-> NoOutcome,
     session |-> "", runner |-> [agent |-> "", session_service |-> 0], seen |-> <<>>]

\* handler h ends with an exception
Raised(h, msg) == [handlers EXCEPT ![h].pc = "done", ![h].outcome = Raise(msg)]

\* handler h returns
Returned(h, tag) == [handlers EXCEPT ![h].pc = "done", ![h].outcome = Return(tag, <<>>)]

\* handler h goes on to position p
Goto(h, p) == [handlers EXCEPT ![h].pc = p]

\* a message event of the session: on_message is started for it, whether or
\* not the handlers of earlier messages have ended (the message handler, and
\* on_audio_end's call of on_message)
Deliver ==
    /\ Len(handlers) < MaxMessages
    /\ \E m \in Messages : handlers' = Append(handlers, Handler(m))
    /\ UNCHANGED <<user_session, services, thread>>
    /\ UNCHANGED docVars

\* on_message up to the await of init_thread: the message check, the check of
\* is_thread_renamed, the synchronous generate_content for the name and the
\* call of emitter.init_thread
OnMessageEntry ==
    \E h \in 1..Len(handlers) :
        /\ handlers[h].pc = "on_message"
        /\ IF ~handlers[h].message.given
           THEN handlers' = Raised(h, ErrInvalidMessage) /\ thread' = thread
           ELSE IF ~SessionGet("is_thread_renamed", FALSE)
                THEN \E named \in BOOLEAN :
                         IF named
                         THEN handlers' = Goto(h, "init_thread") /\ thread' = Append(thread, h)
                         ELSE handlers' = Raised(h, ErrNameService) /\ thread' = thread
                ELSE handlers' = Goto(h, "elements") /\ thread' = thread
        /\ UNCHANGED <<user_session, services>>
        /\ UNCHANGED docVars

\* the await of init_thread ends: is_thread_renamed is set when it returns, the
\* handler ends when it raises or the task is cancelled there
InitThreadReturn ==
    \E h \in 1..Len(handlers) :
        /\ handlers[h].pc = "init_thread"
        /\ \E returned \in BOOLEAN :
               IF returned
               THEN /\ user_session' = SessionSet("is_thread_renamed", TRUE)
                    /\ handlers' = Goto(h, "elements")
               ELSE /\ user_session' = user_session
                    /\ handlers' = Raised(h, ErrInitThread)
        /\ UNCHANGED <<services, thread>>
        /\ UNCHANGED docVars

\* the attachment branch up to the agent, or the choice of the branch without
\* attachment
ProcessElements ==
    \E h \in 1..Len(handlers) :
        /\ handlers[h].pc = "elements"
        /\ LET m == handlers[h].message
               towards(agent) == [handlers EXCEPT ![h].pc = "setup_session_and_runner",
                                                  ![h].runner.agent = agent]
           IN  CASE m.elements = "other" -> handlers' = Raised(h, ErrNoDocument)
                 [] m.elements = "document" ->
                        \E extracted \in {"content", "empty", "raise"} :
                            handlers' =
                                CASE extracted = "raise" -> Raised(h, ErrProcessing)
                                  [] extracted = "empty" -> Raised(h, ErrNoContent)
                                  [] OTHER -> IF m.command = "Summary"
                                              THEN Returned(h, "extracted_content")
                                              ELSE towards("root_agent")
                 [] OTHER ->
                        handlers' =
                            IF m.command \in COMMANDS \/ m.command = "None"
                            THEN towards("search_agent")
                            ELSE IF m.command = "Summary"
                                 THEN Returned(h, "summary_content")
                                 ELSE Returned(h, "None")
        /\ UNCHANGED <<user_session, services, thread>>
        /\ UNCHANGED docVars

\* InMemorySessionService() after create_session(session_id=...): the service
\* keeps its sessions in the instance, the new session has no event
NewService(session_id) == [sessions |-> (session_id :> <<>>)]

\* a variant with one service kept for all calls, to be told from the code's
SetupSessionAndRunner_Shared ==
    \E h \in 1..Len(handlers) :
        /\ handlers[h].pc = "setup_session_and_runner"
        /\ services' = IF services = <<>> THEN <<NewService(ThreadId)>> ELSE services
        /\ handlers' = [handlers EXCEPT ![h].pc = "call_agent",
                                        ![h].session = ThreadId,
                                        ![h].runner.session_service = 1]
        /\ UNCHANGED <<user_session, thread>>
        /\ UNCHANGED docVars

\* setup_session_and_runner(agent, app_name, user_id, session_id): a new
\* service, a new session in it, and a runner on that service
SetupSessionAndRunner ==
    \E h \in 1..Len(handlers) :
        /\ handlers[h].pc = "setup_session_and_runner"
        /\ services' = Append(services, NewService(ThreadId))
        /\ handlers' = [handlers EXCEPT ![h].pc = "call_agent",
                                        ![h].session = ThreadId,
                                        ![h].runner.session_service = Len(services) + 1]
        /\ UNCHANGED <<user_session, thread>>
        /\ UNCHANGED docVars

\* runner.run_async(user_id, session_id, new_message): the run reads the session
\* of that id in the runner's service, stores the new message in it, then the
\* agent's events; the handler raises when no final text came or the run failed
RunAsync(h, err) ==
    LET r == handlers[h].runner
        id == handlers[h].session
        stored == services[r.session_service].sessions[id]
        user_event == [author |-> "user", message |-> h]
        agent_event == [author |-> r.agent, message |-> h]
    IN  \E answer \in {"text", "empty", "raise"} :
            /\ services' = [services EXCEPT ![r.session_service].sessions[id] =
                               stored \o <<user_event>>
                               \o (IF answer = "text" THEN <<agent_event>> ELSE <<>>)]
            /\ handlers' =
                   [(CASE answer = "text" -> Returned(h, "answer")
                       [] answer = "empty" -> Raised(h, err)
                       [] OTHER -> Raised(h, ErrAgent))
                    EXCEPT ![h].seen = stored]

\* call_search_agent(runner, session, user_id, query) and the lines after it
CallSearchAgent ==
    \E h \in 1..Len(handlers) :
        /\ handlers[h].pc = "call_agent"
        /\ handlers[h].runner.agent = "search_agent"
        /\ RunAsync(h, ErrNoSearch)
        /\ UNCHANGED <<user_session, thread>>
        /\ UNCHANGED docVars

\* call_qa_agent(runner, session, user_id, query) and the lines after it
CallQaAgent ==
    \E h \in 1..Len(handlers) :
        /\ handlers[h].pc = "call_agent"
        /\ handlers[h].runner.agent = "root_agent"
        /\ RunAsync(h, ErrNoAnswer)
        /\ UNCHANGED <<user_session, thread>>
        /\ UNCHANGED docVars

\* a chat session after on_chat_start, before its first message
InitChat ==
    /\ config = ConfigFull
    /\ pc = "done"
    /\ filename = None
    /\ file_bytes = None
    /\ file_mime = ""
    /\ file_info = NoInfo
    /\ text = <<>>
    /\ calls = <<>>
    /\ outcome = NoOutcome
    /\ file_data = <<>>
    /\ tasks = <<>>
    /\ results = <<>>
    /\ user_session = OnChatStart
    /\ handlers = <<>>
    /\ services = <<>>
    /\ thread = <<>>

NextChat ==
    \/ Deliver
    \/ OnMessageEntry
    \/ InitThreadReturn
    \/ ProcessElements
    \/ SetupSessionAndRunner
    \/ CallSearchAgent
    \/ CallQaAgent

SpecChat == InitChat /\ [][NextChat]_vars

--------------------------------------------------------------------------
(* Claims about _validate_file, checked under SpecValidate *)

\* the call of _validate_file has ended
Validated == pc = "done" /\ Len(calls) = 1 /\ calls[1].op = "_validate_file"

\* the four checks, each stated on the arguments of the call
GivenExtension == Lower(PathSuffix(filename.v))
ExtensionHolds == GivenExtension \in config.allowed_extensions
ConfiguredMimes ==
    IF GivenExtension \in DOMAIN config.allowed_mime_types
    THEN config.allowed_mime_types[GivenExtension]
    ELSE {}
MimeHolds == ConfiguredMimes = {} \/ file_mime \in ConfiguredMimes
SizeHolds == Len(file_bytes.v) <= config.max_file_size
UnsafeName == ContainsDotDot(filename.v) \/ StartsWithSlash(filename.v)

\* C4: _validate_file checks extension, declared MIME, size and filename safety in
\* that order and fails with the error of the earliest check that does not hold;
\* it returns the file info only when all four hold.
C4_FixedOrderFailFast ==
    Validated =>
        /\ ~ExtensionHolds => outcome = Raise(ErrExtension)
        /\ ExtensionHolds /\ ~MimeHolds => outcome = Raise(ErrMime)
        /\ ExtensionHolds /\ MimeHolds /\ ~SizeHolds => outcome = Raise(ErrSize)
        /\ ExtensionHolds /\ MimeHolds /\ SizeHolds /\ UnsafeName
               => outcome = Raise(ErrFilename)
        /\ outcome.kind = "return"
               <=> ExtensionHolds /\ MimeHolds /\ SizeHolds /\ ~UnsafeName
        /\ outcome.kind = "return"
               => file_info = [filename |-> filename.v, extension |-> GivenExtension,
                               size |-> Len(file_bytes.v), mime_type |-> file_mime]

\* an input violating the MIME, size and filename checks at once is reported as a
\* MIME mismatch
C4_Witness ==
    /\ Validated
    /\ ExtensionHolds /\ ~MimeHolds /\ ~SizeHolds /\ UnsafeName
    /\ outcome = Raise(ErrMime)

\* C5 as stated: every filename that contains '..' or starts with '/' fails with
\* the unsafe-filename error, whatever the other checks say.
C5_UnsafeNameAlwaysReported ==
    Validated /\ UnsafeName => outcome = Raise(ErrFilename)

\* C5 amended: every filename that contains '..' or starts with '/' fails
\* validation; the error is the unsafe-filename error exactly when the extension,
\* declared-MIME and size checks all hold, and otherwise the error of the earliest
\* of those three checks that does not hold.
C5_UnsafeNameAlwaysRejected ==
    Validated /\ UnsafeName =>
        /\ outcome.kind = "raise"
        /\ outcome = Raise(ErrFilename) <=> ExtensionHolds /\ MimeHolds /\ SizeHolds
        /\ ~ExtensionHolds => outcome = Raise(ErrExtension)
        /\ ExtensionHolds /\ ~MimeHolds => outcome = Raise(ErrMime)
        /\ ExtensionHolds /\ MimeHolds /\ ~SizeHolds => outcome = Raise(ErrSize)

\* a filename starting with '/' whose other checks hold is rejected as unsafe
C5_Witness ==
    /\ Validated
    /\ StartsWithSlash(filename.v) /\ ~ContainsDotDot(filename.v)
    /\ ExtensionHolds /\ MimeHolds /\ SizeHolds
    /\ outcome = Raise(ErrFilename)

\* C6: for an allowed extension, a non-empty configured MIME set that lacks the
\* declared MIME makes validation fail with the MIME-mismatch error, and a missing
\* or empty configured set lets every declared MIME through; both lookups use the
\* lower-cased suffix of the filename.
C6_MimeCheck ==
    Validated /\ ExtensionHolds =>
        /\ ConfiguredMimes # {} /\ file_mime \notin ConfiguredMimes
               => outcome = Raise(ErrMime)
        /\ ConfiguredMimes = {}
               => /\ outcome # Raise(ErrMime)
                  /\ SizeHolds /\ ~UnsafeName => outcome.kind = "return"
        /\ file_info.extension = GivenExtension

\* an upper-case extension with no configured MIME set is accepted with a declared
\* MIME that no set of the configuration holds
C6_Witness ==
    /\ Validated
    /\ PathSuffix(filename.v) = <<".", "PDF">>
    /\ GivenExtension \notin DOMAIN config.allowed_mime_types
    /\ file_mime = "image/png"
    /\ outcome.kind = "return"

--------------------------------------------------------------------------
(* Claims about summarization, checked under SpecSummarize *)

Done == pc = "done"
\* the text given to _clean_and_summarize_text is empty or whitespace only
GivenBlank == \A i \in 1..Len(text) : text[i] = 32
ServiceCalls == {i \in 1..Len(calls) : calls[i].op = "generate_content:summary"}
SummaryCallRaised == \E i \in ServiceCalls : ~calls[i].ok

\* C7: summarizing empty or whitespace-only text returns the fixed sentinel and
\* makes no call of the text-generation service.
C7_BlankGivesSentinel ==
    GivenBlank =>
        /\ ServiceCalls = {}
        /\ Done => outcome = Sentinel

\* summarize_text has returned the sentinel for a non-empty text of spaces
C7_Witness ==
    /\ Done
    /\ Len(text) >= 2 /\ GivenBlank
    /\ calls = <<[op |-> "_clean_and_summarize_text", ok |-> TRUE]>>
    /\ outcome = Sentinel

\* C8: for non-blank text, when the call of the summarization service raises,
\* _clean_and_summarize_text returns the "Original content:" marker followed by
\* exactly the first text_extract_limit characters of the text.
C8_DegradedToTruncatedOriginal ==
    Done /\ ~GivenBlank /\ SummaryCallRaised =>
        /\ outcome.kind = "return"
        /\ outcome.tag = "Original content:"
        /\ Len(outcome.body) = (IF Len(text) <= config.text_extract_limit
                                THEN Len(text) ELSE config.text_extract_limit)
        /\ \A i \in 1..Len(outcome.body) : outcome.body[i] = text[i]

\* a text of text_extract_limit + 1 characters is cut to text_extract_limit
C8_Witness ==
    /\ Done /\ ~GivenBlank /\ SummaryCallRaised
    /\ Len(text) = config.text_extract_limit + 1
    /\ Len(outcome.body) = config.text_extract_limit
    /\ outcome.tag = "Original content:"

--------------------------------------------------------------------------
(* Claims about process_document_async, checked under Spec *)

Extractors == {"_extract_text_from_pdf_bytes", "_extract_text_from_docx_bytes",
               "_extract_text_from_txt_bytes", "_extract_content_from_image_bytes"}
ValidationFailed == \E i \in 1..Len(calls) : calls[i].op = "_validate_file" /\ ~calls[i].ok
ValidationPassed == \E i \in 1..Len(calls) : calls[i].op = "_validate_file" /\ calls[i].ok
ExtractionFailed == \E i \in 1..Len(calls) : calls[i].op \in Extractors /\ ~calls[i].ok
ExtractionPassed == \E i \in 1..Len(calls) : calls[i].op \in Extractors /\ calls[i].ok

\* C9: a validation failure or an extraction failure (a parse failure or a failed
\* OCR call) surfaces as an error to the caller of process_document_async; a failure
\* of the summarization call never does: once validation and extraction succeeded
\* the call returns text.
C9_PropagationPolicy ==
    Done =>
        /\ ValidationFailed \/ ExtractionFailed => outcome.kind = "raise"
        /\ ValidationPassed /\ ExtractionPassed => outcome.kind = "return"
        /\ SummaryCallRaised => outcome.kind = "return" /\ outcome.tag = "Original content:"

\* validation and extraction succeeded, the summarization call raised, and the
\* call returned the degraded content
C9_Witness ==
    /\ Done
    /\ ValidationPassed /\ ExtractionPassed /\ SummaryCallRaised
    /\ outcome.kind = "return"

\* C10: with filename or file_bytes empty or missing, process_document_async fails
\* before validation runs: _validate_file, the extractors and the text-generation
\* service are not invoked.
C10_RequiredArguments ==
    Falsy(filename) \/ Falsy(file_bytes) =>
        /\ calls = <<>>
        /\ Done => outcome = Raise(ErrRequired)

\* a call with a filename that would pass validation and empty bytes has failed
\* with nothing invoked
C10_Witness ==
    /\ Done
    /\ filename = Some(<<"pdf", ".", "pdf">>) /\ file_bytes = Some(<<>>)
    /\ calls = <<>>
    /\ outcome = Raise(ErrRequired)

\* the positions in the log of the calls of the text-generation service
OcrCalls == {i \in 1..Len(calls) : calls[i].op = "generate_content:ocr"}
ImageExtensions == {<<".", "jpg">>, <<".", "jpeg">>, <<".", "png">>}

\* C11: one process_document_async invocation calls the text-generation service at
\* most once for summarization and, for image files only, at most once before that
\* for OCR; a failed call is not issued again: a failed summarization call is
\* degraded, a failed OCR call is raised with no summarization call made.
C11_NoRetries ==
    /\ Cardinality(ServiceCalls) <= 1
    /\ Cardinality(OcrCalls) <= 1
    /\ OcrCalls # {} => Lower(PathSuffix(filename.v)) \in ImageExtensions
    /\ \A i \in OcrCalls : \A j \in ServiceCalls : i < j
    /\ \A i \in OcrCalls : ~calls[i].ok =>
           /\ ServiceCalls = {}
           /\ i = Len(calls)
           /\ outcome = Raise(ErrImage)
    /\ \A j \in ServiceCalls : ~calls[j].ok =>
           /\ j = Len(calls)
           /\ outcome.kind = "return" /\ outcome.tag = "Original content:"

\* an image whose OCR call succeeded and whose summarization call failed: two calls
\* in all, and the degraded content returned
C11_Witness ==
    /\ Done
    /\ Cardinality(OcrCalls) = 1 /\ Cardinality(ServiceCalls) = 1
    /\ SummaryCallRaised
    /\ outcome.tag = "Original content:"

--------------------------------------------------------------------------
(* Claims about the decoding of _extract_text_from_txt_bytes, checked under SpecTxt *)

\* the decoding step has run
Decoded == pc # "_extract_text_from_txt_bytes"
\* the decoding attempts made, in order
Attempts == SubSeq(calls, 2, Len(SelectSeq(calls, LAMBDA c : c.op # "generate_content:summary")))
\* the bytes are well-formed UTF-8: every byte above 127 is a lead byte 194..223
\* followed by a continuation byte, or the continuation byte of such a lead
Utf8Valid ==
    LET b == file_bytes.v
        IsLead(i) == 194 <= b[i] /\ b[i] <= 223 /\ i < Len(b)
                     /\ 128 <= b[i + 1] /\ b[i + 1] <= 191
        \* position i starts a character when the bytes before it split into
        \* characters; CharStart[i] for i in 1..Len(b)+1
        CharStart[i \in 1..(Len(b) + 1)] ==
            IF i = 1 THEN TRUE
            ELSE \/ CharStart[i - 1] /\ b[i - 1] < 128
                 \/ i > 2 /\ CharStart[i - 2] /\ IsLead(i - 2)
    IN  CharStart[Len(b) + 1]
\* the code points of well-formed UTF-8 of one- and two-byte characters
Utf8Text ==
    LET b == file_bytes.v
        starts == {i \in 1..Len(b) : b[i] < 128 \/ b[i] >= 192}
        Nth(k) == CHOOSE i \in starts : Cardinality({j \in starts : j < i}) = k - 1
    IN  [k \in 1..Cardinality(starts) |->
            IF b[Nth(k)] < 128 THEN b[Nth(k)]
            ELSE (b[Nth(k)] - 192) * 64 + (b[Nth(k) + 1] - 128)]
Limit(t) == SubSeq(t, 1, IF Len(t) < config.text_extract_limit
                         THEN Len(t) ELSE config.text_extract_limit)

\* C12: the decoding tries UTF-8, Latin-1, Windows-1252, ISO-8859-1 in that order
\* and accepts the first that decodes: well-formed UTF-8 is decoded as UTF-8,
\* other bytes as Latin-1 (each byte its own code point), bytes no encoding
\* decodes by UTF-8 with substitution; the step always yields text.
C12_TxtDecoding ==
    Decoded =>
        /\ calls[1] = [op |-> "_extract_text_from_txt_bytes", ok |-> TRUE]
        /\ outcome.kind # "raise"
        /\ Len(Attempts) >= 1
        /\ \A i \in 1..Len(Attempts) :
               \/ i <= 4 /\ Attempts[i].op = <<"utf-8", "latin-1", "windows-1252", "iso-8859-1">>[i]
               \/ i = 5 /\ Attempts[i].op = "utf-8:replace"
        /\ \A i \in 1..Len(Attempts) : Attempts[i].ok <=> i = Len(Attempts)
        /\ Utf8Valid => Attempts[Len(Attempts)].op = "utf-8" /\ text = Limit(Utf8Text)
        /\ ~Utf8Valid /\ Len(Attempts) = 2 => text = Limit(file_bytes.v)
        /\ ~Utf8Valid => Len(Attempts) >= 2

\* bytes that are no UTF-8 have been decoded as Latin-1, a lone lead byte among them
C12_Witness ==
    /\ Decoded
    /\ file_bytes.v = <<65, 195, 65>>
    /\ Attempts = <<[op |-> "utf-8", ok |-> FALSE], [op |-> "latin-1", ok |-> TRUE]>>
    /\ text = <<65, 195, 65>>

\* C15: Latin-1 decodes every byte string, so the decoding selects UTF-8 for
\* well-formed UTF-8 and Latin-1 otherwise; Windows-1252, ISO-8859-1 and the
\* substitution fallback are never reached.
C15_Latin1CatchesAll ==
    /\ \A i \in 1..Len(calls) : calls[i].op \notin {"windows-1252", "iso-8859-1", "utf-8:replace"}
    /\ Decoded =>
           /\ Utf8Valid => Attempts = <<[op |-> "utf-8", ok |-> TRUE]>>
           /\ ~Utf8Valid => Attempts = <<[op |-> "utf-8", ok |-> FALSE],
                                         [op |-> "latin-1", ok |-> TRUE]>>

\* a byte that Windows-1252 leaves undefined has been decoded as Latin-1
C15_Witness ==
    /\ Decoded
    /\ \E i \in 1..Len(file_bytes.v) : file_bytes.v[i] \in Cp1252Undefined
    /\ ~Utf8Valid
    /\ Attempts[Len(Attempts)] = [op |-> "latin-1", ok |-> TRUE]
    /\ text = Limit(file_bytes.v)

--------------------------------------------------------------------------
(* Claims about batch_process_documents_async, checked under SpecBatch *)

\* C1: batch_process_documents_async never raises: every error of one file's
\* pipeline is stored as an error string under its filename and the call returns
\* a result map.
C1_BatchNeverRaises == Done => outcome.kind = "return"

\* C2: when the batch call ends, the result map has exactly one entry per input
\* filename.
C2_OneEntryPerFile == Done => DOMAIN results = FileNames(file_data)

\* C3: when the batch call ends, the entry of every file is what that file's own
\* task produced: its text, or its error string when that task failed; a file whose
\* extension is not allowed has an error string, whatever the other files are.
C3_BatchIsolation ==
    Done =>
        \A i \in 1..Len(file_data) :
            LET f == file_data[i].filename
            IN  /\ f \in DOMAIN results
                /\ i <= Len(tasks)
                /\ results[f] = (IF tasks[i].outcome.kind = "return"
                                 THEN tasks[i].outcome ELSE ErrorString(tasks[i].outcome))
                /\ Lower(PathSuffix(f)) \notin config.allowed_extensions
                       => results[f].kind = "error"

\* C13: in batch mode one task per file is launched before any is awaited: when
\* the call ends, every file of the input has its own task, in input order, and
\* its own key of the results map.
C13_OneTaskPerFile ==
    Done =>
        /\ Len(tasks) = Len(file_data)
        /\ \A i \in 1..Len(file_data) :
               /\ tasks[i].filename = file_data[i].filename
               /\ tasks[i].filename \in DOMAIN results

--------------------------------------------------------------------------
(* Claims about batch_process_documents, checked under SpecSyncBatch *)

\* the steps of a file's pipeline
PipelineSteps == {"_validate_file", "generate_content:ocr", "generate_content:summary"} \cup Extractors

--------------------------------------------------------------------------
(* Claims about the chat session, checked under SpecChat *)

IsThreadRenamed == SessionGet("is_thread_renamed", FALSE)
\* the positions of on_message after the naming
AfterNaming == {"elements", "setup_session_and_runner", "call_agent"}
\* the handlers that have called setup_session_and_runner
WithRunner == {h \in 1..Len(handlers) : handlers[h].runner.session_service # 0}

\* C16: within one chat session, over any sequence of on_message events,
\* emitter.init_thread is called at most once; is_thread_renamed is set only
\* after a call of it and never reset, and a handler gets to its attachment
\* processing or agent call only with the naming done.
C16_ThreadNamedAtMostOnce ==
    /\ Len(thread) <= 1
    /\ IsThreadRenamed => thread # <<>>
    /\ \A h \in 1..Len(handlers) : handlers[h].pc \in AfterNaming => IsThreadRenamed

\* C17: every call of setup_session_and_runner creates a new session service
\* with a new session in it and the runner is bound to that service: no two
\* messages share a service, at most one is created per message, every service
\* holds the one session of the thread id with events of its own message only,
\* and an agent run finds no event of another message in its session.
C17_FreshSessionService ==
    /\ Len(services) = Cardinality(WithRunner)
    /\ \A h \in WithRunner :
           /\ handlers[h].runner.session_service \in 1..Len(services)
           /\ handlers[h].session = ThreadId
           /\ handlers[h].seen = <<>>
           /\ \A g \in WithRunner :
                  handlers[g].runner.session_service = handlers[h].runner.session_service
                      => g = h
    /\ \A k \in 1..Len(services) :
           /\ DOMAIN services[k].sessions = {ThreadId}
           /\ \A i \in 1..Len(services[k].sessions[ThreadId]) :
                  LET event == services[k].sessions[ThreadId][i]
                  IN  /\ event.message \in WithRunner
                      /\ handlers[event.message].runner.session_service = k

\* two messages of the session were answered by an agent, each in a session of
\* the same id that holds its own two events
C17_Witness ==
    /\ Len(handlers) = 2
    /\ \A h \in 1..2 :
           /\ handlers[h].pc = "done"
           /\ handlers[h].outcome = Return("answer", <<>>)
           /\ handlers[h].session = ThreadId
    /\ Len(services) = 2
    /\ \A k \in 1..2 : Len(services[k].sessions[ThreadId]) = 2

==========================================================================
